---------------------------- MODULE Spec2Model ----------------------------
(***************************************************************************)
(* Model of Lesson05/Activity28/activity28.ipynb:                          *)
(*   - to_epoch(date, time): text -> unix timestamp with a fallback,       *)
(*   - the application of to_epoch to the rows of the dataset,             *)
(*   - the TrackLayer stub (__init__, draw, bbox) driven by the host       *)
(*     display loop.                                                       *)
(* Text is a sequence of one-character strings.  datetime.strptime, the    *)
(* datetime constructor, datetime.timestamp() of a naive datetime and      *)
(* round() are modelled by what CPython does for the call on line 130.     *)
(***************************************************************************)
EXTENDS Integers, Sequences, FiniteSets, TLC

VARIABLES
  env,       \* the machine each run of the notebook is on: time zone and platform
  arg,       \* the (date, time) of the latest call of to_epoch
  ret,       \* what that call returned or raised, on each machine
  pair,      \* two (date, time) rows to_epoch is applied to in turn
  stamps,    \* the results of to_epoch for the rows of pair done so far
  layer,     \* the TrackLayer instance: <<>> or <<[view |-> bounding box]>>
  dataset,   \* the dataset the layer was constructed with
  ctorBbox,  \* the bbox argument of the constructor: <<>> when omitted, else <<b>>
  bboxRet,   \* what the latest bbox() call returned: <<>> or <<b>>
  frame,     \* the number of frames the display loop has drawn
  painted,   \* the rows painted on the latest frame
  overlay    \* the overlay text painted on the latest frame: <<>> or <<text>>

vars == <<env, arg, ret, pair, stamps, layer, dataset, ctorBbox, bboxRet, frame, painted, overlay>>

epochVars == <<env, arg, ret>>

orderVars == <<pair, stamps>>

layerVars == <<layer, dataset, ctorBbox, bboxRet, frame, painted, overlay>>

(***************************************************************************)
(* Characters and text.                                                    *)
(***************************************************************************)
Digits == {"0", "1", "2", "3", "4", "5", "6", "7", "8", "9"}

IsDigit(c) == c \in Digits

\* \s of the regular expression (the ASCII whitespace the inputs can hold)
IsSpace(c) == c \in {" ", "\t"}

DigitVal(c) ==
  CASE c = "0" -> 0 [] c = "1" -> 1 [] c = "2" -> 2 [] c = "3" -> 3 [] c = "4" -> 4
    [] c = "5" -> 5 [] c = "6" -> 6 [] c = "7" -> 7 [] c = "8" -> 8 [] c = "9" -> 9

\* the character of s at position p, or "" past the end
At(s, p) == IF p >= 1 /\ p <= Len(s) THEN s[p] ELSE ""

\* '{} {}'.format(date, time)
FormatPair(date, time) == date \o <<" ">> \o time

\* the text of the except branch, '2017/09/11 17:02:06.418'
FallbackText ==
  <<"2","0","1","7","/","0","9","/","1","1"," ","1","7",":","0","2",":","0","6",".","4","1","8">>

(***************************************************************************)
(* datetime.strptime(text, '%Y/%m/%d %H:%M:%S.%f').  The format compiles   *)
(* to the regular expression                                               *)
(*   (\d\d\d\d)/(1[0-2]|0[1-9]|[1-9])/(3[01]|[12]\d|0[1-9]|[1-9]| [1-9])   *)
(*   \s+(2[0-3]|[0-1]\d|\d):([0-5]\d|\d):(6[0-1]|[0-5]\d|\d)\.([0-9]{1,6}) *)
(* matched at the start of the text with backtracking; text left over      *)
(* after the match is a ValueError.                                        *)
(***************************************************************************)
\* the format written with '-' between the fields of the date
FmtDash == <<"Y", "-", "m", "-", "d", "ws", "H", ":", "M", ":", "S", ".", "f">>

Fmt == <<"Y", "/", "m", "/", "d", "ws", "H", ":", "M", ":", "S", ".", "f">>

\* number of consecutive characters from p on that satisfy the class, up to max
RECURSIVE RunLen(_, _, _, _)
RunLen(s, p, max, space) ==
  IF max = 0 \/ p > Len(s) THEN 0
  ELSE IF (IF space THEN IsSpace(s[p]) ELSE IsDigit(s[p]))
       THEN 1 + RunLen(s, p + 1, max - 1, space)
       ELSE 0

\* <<n, n-1, ..., 1>>: a greedy quantifier gives back one character at a time
RECURSIVE Descending(_)
Descending(n) == IF n <= 0 THEN <<>> ELSE <<n>> \o Descending(n - 1)

\* the lengths item can match at position p of s, in the order the regular
\* expression tries its alternatives
Candidates(item, s, p) ==
  LET c1 == At(s, p)
      c2 == At(s, p + 1)
      two(ok) == IF ok THEN <<2>> ELSE <<>>
      one(ok) == IF ok THEN <<1>> ELSE <<>>
      nz(c) == IsDigit(c) /\ c # "0"
  IN CASE item = "Y" ->
            IF RunLen(s, p, 4, FALSE) = 4 THEN <<4>> ELSE <<>>
       [] item = "m" ->
            two((c1 = "1" /\ c2 \in {"0", "1", "2"}) \/ (c1 = "0" /\ nz(c2)))
              \o one(nz(c1))
       [] item = "d" ->
            two((c1 = "3" /\ c2 \in {"0", "1"}) \/ (c1 \in {"1", "2"} /\ IsDigit(c2))
                \/ (c1 = "0" /\ nz(c2)))
              \o one(nz(c1)) \o two(c1 = " " /\ nz(c2))
       [] item = "H" ->
            two((c1 = "2" /\ c2 \in {"0", "1", "2", "3"})
                \/ (c1 \in {"0", "1"} /\ IsDigit(c2)))
              \o one(IsDigit(c1))
       [] item = "M" ->
            two(c1 \in {"0", "1", "2", "3", "4", "5"} /\ IsDigit(c2)) \o one(IsDigit(c1))
       [] item = "S" ->
            two((c1 = "6" /\ c2 \in {"0", "1"})
                \/ (c1 \in {"0", "1", "2", "3", "4", "5"} /\ IsDigit(c2)))
              \o one(IsDigit(c1))
       [] item = "f" -> Descending(RunLen(s, p, 6, FALSE))
       [] item = "ws" -> Descending(RunLen(s, p, Len(s), TRUE))
       [] OTHER -> one(c1 = item)

NoMatch == [ok |-> FALSE, end |-> 0, caps |-> <<>>]

\* the first match of Fmt[i..] at position p: where it ends and, for every
\* item, the <<position, length>> it matched
RECURSIVE Match(_, _, _)
RECURSIVE TryCandidates(_, _, _, _, _)
Match(s, i, p) ==
  IF i > Len(Fmt) THEN [ok |-> TRUE, end |-> p, caps |-> <<>>]
  ELSE TryCandidates(s, i, p, Candidates(Fmt[i], s, p), 1)

TryCandidates(s, i, p, cands, k) ==
  IF k > Len(cands) THEN NoMatch
  ELSE LET r == Match(s, i + 1, p + cands[k])
       IN IF r.ok
          THEN [ok |-> TRUE, end |-> r.end, caps |-> <<<<p, cands[k]>>>> \o r.caps]
          ELSE TryCandidates(s, i, p, cands, k + 1)

\* int() of the digits of s[p .. p+n-1] (a leading space, as in ' 7', is skipped)
RECURSIVE IntOf(_, _, _)
IntOf(s, p, n) ==
  IF n = 0 THEN 0
  ELSE LET c == s[p + n - 1]
       IN IF IsDigit(c) THEN IntOf(s, p, n - 1) * 10 + DigitVal(c) ELSE IntOf(s, p, n - 1)

\* '%f': the digits padded with zeros on the right to six, as microseconds
RECURSIVE Pow10(_)
Pow10(n) == IF n = 0 THEN 1 ELSE 10 * Pow10(n - 1)

Micros(s, p, n) == IntOf(s, p, n) * Pow10(6 - n)

(***************************************************************************)
(* Results of a call: a returned value or a raised exception.              *)
(***************************************************************************)
Return(v) == [kind |-> "return", value |-> v, exc |-> ""]

Raise(e) == [kind |-> "raise", value |-> 0, exc |-> e]

NoRet == [kind |-> "none", value |-> 0, exc |-> ""]

(***************************************************************************)
(* The datetime constructor strptime ends with: the fields are checked     *)
(* (year 1..9999, month 1..12, day within the month, hour, minute, second  *)
(* 0..59) and a ValueError raised when one is out of range.                *)
(***************************************************************************)
IsLeap(y) == y % 4 = 0 /\ (y % 100 # 0 \/ y % 400 = 0)

DaysInMonth(y, m) ==
  IF m = 2 THEN (IF IsLeap(y) THEN 29 ELSE 28)
  ELSE IF m \in {4, 6, 9, 11} THEN 30 ELSE 31

ValidFields(f) ==
  /\ f.year >= 1 /\ f.year <= 9999
  /\ f.month >= 1 /\ f.month <= 12
  /\ f.day >= 1 /\ f.day <= DaysInMonth(f.year, f.month)
  /\ f.hour >= 0 /\ f.hour <= 23
  /\ f.minute >= 0 /\ f.minute <= 59
  /\ f.second >= 0 /\ f.second <= 59
  /\ f.microsecond >= 0 /\ f.microsecond <= 999999

\* datetime.strptime(s, '%Y/%m/%d %H:%M:%S.%f'): Return(datetime) or Raise("ValueError")
strptime(s) ==
  LET r == Match(s, 1, 1)
      val(i) == IntOf(s, r.caps[i][1], r.caps[i][2])
      f == [year |-> val(1), month |-> val(3), day |-> val(5),
            hour |-> val(7), minute |-> val(9), second |-> val(11),
            microsecond |-> Micros(s, r.caps[13][1], r.caps[13][2])]
  IN IF ~r.ok THEN Raise("ValueError")                   \* does not match format
     ELSE IF r.end # Len(s) + 1 THEN Raise("ValueError") \* unconverted data remains
     ELSE IF ~ValidFields(f) THEN Raise("ValueError")    \* field out of range
     ELSE Return(f)

(***************************************************************************)
(* datetime.timestamp() of a naive datetime: the fields are read as local  *)
(* time of the machine the notebook runs on.                               *)
(***************************************************************************)
RECURSIVE DaysBeforeMonth(_, _)
DaysBeforeMonth(y, m) ==
  IF m = 1 THEN 0 ELSE DaysBeforeMonth(y, m - 1) + DaysInMonth(y, m - 1)

\* proleptic Gregorian ordinal, 0001-01-01 is day 1
Ordinal(y, m, d) ==
  LET p == y - 1
  IN p * 365 + (p \div 4) - (p \div 100) + (p \div 400) + DaysBeforeMonth(y, m) + d

\* the ordinal of 1970-01-01
EpochOrdinal == 719163

\* the fields counted as if they were UTC, in seconds since 1970-01-01 00:00:00
UtcToSeconds(f) ==
  (Ordinal(f.year, f.month, f.day) - EpochOrdinal) * 86400
    + f.hour * 3600 + f.minute * 60 + f.second

\* The machines the notebook may run on: the local time zone and the platform's
\* localtime().  "London" has summer time, "GMT+5" is five hours behind UTC all
\* year; on "windows" localtime() fails for a negative time_t.
Envs ==
  { [tz |-> "UTC", platform |-> "posix"],
    [tz |-> "London", platform |-> "posix"],
    [tz |-> "GMT+5", platform |-> "posix"],
    [tz |-> "UTC", platform |-> "windows"],
    [tz |-> "London", platform |-> "windows"] }

\* Europe/London: the periods, [from, to) in UTC seconds, at UTC+1 that the
\* dates of the inputs can touch (British Standard Time 1968-71, summer 2016, 2017)
LondonPlusOne ==
  { <<-59004000, 57722400>>, <<1459040400, 1477789200>>, <<1490490000, 1509238800>> }

\* the UTC offset, in seconds, of local time at UTC instant u
UtcOffset(tz, u) ==
  CASE tz = "UTC" -> 0
    [] tz = "GMT+5" -> -18000
    [] tz = "London" ->
         IF \E iv \in LondonPlusOne : iv[1] <= u /\ u < iv[2] THEN 3600 ELSE 0

\* local(u): the local wall clock at UTC instant u, counted as seconds
Local(e, u) == u + UtcOffset(e.tz, u)

\* localtime() fails (OSError) for a negative argument on Windows
LocalFails(e, u) == e.platform = "windows" /\ u < 0

MaxFoldSeconds == 86400

Max(a, b) == IF a >= b THEN a ELSE b

\* local_to_seconds with fold = 0: solve t = local(u) for u
LocalToSeconds(e, t) ==
  IF LocalFails(e, t) THEN Raise("OSError")
  ELSE
  LET a == Local(e, t) - t
      u1 == t - a
  IN IF LocalFails(e, u1) THEN Raise("OSError")
     ELSE
     LET t1 == Local(e, u1)
         u2f == u1 - MaxFoldSeconds
     IN IF t1 = t /\ LocalFails(e, u2f) THEN Raise("OSError")
        ELSE IF t1 = t /\ Local(e, u2f) - u2f = a THEN Return(u1)
        ELSE
        LET b == IF t1 = t THEN Local(e, u2f) - u2f ELSE t1 - u1
            u2 == t - b
        IN IF LocalFails(e, u2) THEN Raise("OSError")
           ELSE IF Local(e, u2) = t THEN Return(u2)
           ELSE IF t1 = t THEN Return(u1)
           ELSE Return(Max(u1, u2))               \* t is in a gap

\* round(x) of the float x = u + us / 10^6: to the nearest integer, a tie to the
\* even one.  For |u| < 2^31 the float is within 2^-23 of the exact sum and
\* u + 1/2 is a float, so the comparison of us with half a second is exact.
PyRound(u, us) ==
  IF 2 * us < 1000000 THEN u
  ELSE IF 2 * us > 1000000 THEN u + 1
  ELSE IF u % 2 = 0 THEN u ELSE u + 1

\* round(datetime.strptime(s, fmt).timestamp()): a value or the exception raised
RoundedTimestamp(e, s) ==
  LET dt == strptime(s)
  IN IF dt.kind = "raise" THEN dt
     ELSE LET u == LocalToSeconds(e, UtcToSeconds(dt.value))
          IN IF u.kind = "raise" THEN u
             ELSE Return(PyRound(u.value, dt.value.microsecond))

\* to_epoch(date, time) on machine e
to_epoch(e, date, time) ==
  LET r == RoundedTimestamp(e, FormatPair(date, time))
  IN IF r.kind = "raise" /\ r.exc = "ValueError"        \* except ValueError:
     THEN RoundedTimestamp(e, FallbackText)
     ELSE r

(***************************************************************************)
(* The date and time texts the calls are made with.  The real dates lie    *)
(* between 1969 and 2017, so that every second count fits 32 bits and the  *)
(* float of timestamp() keeps the microseconds.                            *)
(***************************************************************************)
Dates ==
  { <<"2","0","1","7","/","0","9","/","1","1">>,
    <<"2","0","1","7","/","9","/","1","1">>,
    <<"2","0","1","7","-","0","9","-","1","1">>,
    <<"2","0","1","7","/","0","2","/","2","9">>,
    <<"2","0","1","6","/","0","2","/","2","9">>,
    <<"2","0","1","7","/","0","3","/","2","6">>,
    <<"2","0","1","7","/","1","0","/","2","9">>,
    <<"1","9","6","9","/","1","2","/","3","1">>,
    <<"1","9","7","0","/","0","1","/","0","3">>,
    <<"0","0","0","0","/","0","1","/","0","1">>,
    <<"1","7","/","0","9","/","1","1">>,
    <<>> }

Times ==
  { <<"1","7",":","0","2",":","0","6",".","4","1","8">>,
    <<"1","7",":","0","2",":","0","6",".","0">>,
    <<"1","7",":","0","2",":","0","6",".","5">>,
    <<"1","7",":","0","2",":","0","7",".","5">>,
    <<"1","7",":","0","2",":","0","6",".","5","0","0","0","0","1">>,
    <<"1","7",":","0","2",":","0","6",".","4","9","9","9","9","9">>,
    <<"1","7",":","0","2",":","0","6">>,
    <<"1","7",":","0","2",":","0","6",".","1","2","3","4","5","6","7">>,
    <<"1","7",":","0","2",":","6","0",".","0">>,
    <<"2","4",":","0","0",":","0","0",".","0">>,
    <<"0","1",":","3","0",":","0","0",".","0">>,
    <<"0","2",":","0","0",":","0","0",".","0">>,
    <<"0","0",":","5","9",":","5","9",".","9","9","9","9","9","9">>,
    <<"7",":","2",":","6",".","9">>,
    <<" ","1","7",":","0","2",":","0","6",".","0">> }

(***************************************************************************)
(* The TrackLayer stub and the host's display loop.  Coordinates are in    *)
(* units of 1/10000 of a degree.                                           *)
(***************************************************************************)
\* geoplotlib's BoundingBox.WORLD, the default of __init__'s bbox
WORLD == [north |-> 850000, west |-> -1800000, south |-> -850000, east |-> 1800000]

\* leeds_bbox = BoundingBox(north=53.8074, west=-3, south=53.7074, east=0)
leeds_bbox == [north |-> 538074, west |-> -30000, south |-> 537074, east |-> 0]

BBoxes == {WORLD, leeds_bbox}

\* datasets of rows (hex_ident, timestamp); timestamps count frames
Datasets ==
  { {},
    {[hex_ident |-> "a", timestamp |-> 0]},
    {[hex_ident |-> "a", timestamp |-> 0], [hex_ident |-> "a", timestamp |-> 2],
     [hex_ident |-> "b", timestamp |-> 1]} }

\* the frames the display loop is followed for
MaxFrames == 5

\* self.view = bbox, with the default of the parameter
InitView(bboxArg) == IF bboxArg = <<>> THEN WORLD ELSE bboxArg[1]

\* TrackLayer(dataset, bbox): only the view is stored
TrackLayerInit(ds, bboxArg) ==
  /\ layer' = <<[view |-> InitView(bboxArg)]>>
  /\ dataset' = ds
  /\ ctorBbox' = bboxArg
  /\ bboxRet' = <<>>
  /\ frame' = 0
  /\ painted' = {}
  /\ overlay' = <<>>
  /\ UNCHANGED <<epochVars, orderVars>>

\* a draw that sets the view back to the default
DrawLayerResetsView(l) == [view |-> WORLD]

\* what draw leaves of the instance: the body is pass
DrawLayer(l) == l

\* draw(proj, mouse_x, mouse_y, ui_manager), called by the display loop once a
\* frame: the body is pass, nothing is painted
TrackLayerDraw(mouse_x, mouse_y) ==
  /\ layer # <<>>
  /\ frame < MaxFrames
  /\ frame' = frame + 1
  /\ layer' = <<DrawLayer(layer[1])>>
  /\ painted' = {}
  /\ overlay' = <<>>
  /\ UNCHANGED <<dataset, ctorBbox, bboxRet, epochVars, orderVars>>

\* return self.view
BboxResult(l) == l.view

\* bbox()
TrackLayerBbox ==
  /\ layer # <<>>
  /\ bboxRet' = <<BboxResult(layer[1])>>
  /\ UNCHANGED <<layer, dataset, ctorBbox, frame, painted, overlay, epochVars, orderVars>>

(***************************************************************************)
(* Calls of to_epoch.                                                      *)
(***************************************************************************)
Machines == {1, 2}

\* to_epoch over the machines and the texts of the model, evaluated once
EpochTable ==
  [e \in Envs |-> [date \in Dates |-> [time \in Times |-> to_epoch(e, date, time)]]]

NoArg == [date |-> <<>>, time |-> <<>>]

\* to_epoch(date, time), run with the same arguments on each machine
ToEpoch(date, time) ==
  /\ arg' = [date |-> date, time |-> time]
  /\ ret' = [m \in Machines |-> EpochTable[env[m]][date][time]]
  /\ UNCHANGED <<env, orderVars, layerVars>>

\* to_epoch applied to the next row of pair, on machine 1
ApplyToEpoch ==
  /\ Len(stamps) < Len(pair)
  /\ LET row == pair[Len(stamps) + 1]
     IN stamps' = Append(stamps, EpochTable[env[1]][row.date][row.time])
  /\ UNCHANGED <<pair, epochVars, layerVars>>

(***************************************************************************)
(* Specifications.                                                         *)
(***************************************************************************)
InitLayer ==
  /\ layer = <<>>
  /\ dataset = {}
  /\ ctorBbox = <<>>
  /\ bboxRet = <<>>
  /\ frame = 0
  /\ painted = {}
  /\ overlay = <<>>

InitEpoch ==
  /\ arg = NoArg
  /\ ret = [m \in Machines |-> NoRet]

\* calls of to_epoch on two machines
Init ==
  /\ env \in [Machines -> Envs]
  /\ InitEpoch
  /\ pair = <<>>
  /\ stamps = <<>>
  /\ InitLayer

Next == \E date \in Dates, time \in Times : ToEpoch(date, time)

SpecEpoch == Init /\ [][Next]_vars

\* to_epoch applied to two rows on one machine
InitOrder ==
  /\ env \in {f \in [Machines -> Envs] : f[1] = f[2]}
  /\ InitEpoch
  /\ pair \in {<<a, b>> : a \in [date : Dates, time : Times], b \in [date : Dates, time : Times]}
  /\ stamps = <<>>
  /\ InitLayer

NextOrder == ApplyToEpoch

SpecOrder == InitOrder /\ [][NextOrder]_vars

\* the layer under the display loop
InitDisplay ==
  /\ env \in {f \in [Machines -> Envs] : f[1] = f[2]}
  /\ InitEpoch
  /\ pair = <<>>
  /\ stamps = <<>>
  /\ InitLayer

NextDisplay ==
  \/ \E ds \in Datasets, b \in {<<>>} \cup {<<x>> : x \in BBoxes} : TrackLayerInit(ds, b)
  \/ \E mouse_x \in {0, 1}, mouse_y \in {0, 1} : TrackLayerDraw(mouse_x, mouse_y)
  \/ TrackLayerBbox

SpecDisplay == InitDisplay /\ [][NextDisplay]_vars

(***************************************************************************)
(* What the texts of the model mean, written down text by text: the dates  *)
(* and times in the shape YYYY/MM/DD and HH:MM:SS.fraction that denote a   *)
(* real date and time, with their fields, and the texts no parse accepts.  *)
(***************************************************************************)
DateOf(d) ==
  CASE d = <<"2","0","1","7","/","0","9","/","1","1">> -> <<2017, 9, 11>>
    [] d = <<"2","0","1","6","/","0","2","/","2","9">> -> <<2016, 2, 29>>
    [] d = <<"2","0","1","7","/","0","3","/","2","6">> -> <<2017, 3, 26>>
    [] d = <<"2","0","1","7","/","1","0","/","2","9">> -> <<2017, 10, 29>>
    [] d = <<"1","9","6","9","/","1","2","/","3","1">> -> <<1969, 12, 31>>
    [] d = <<"1","9","7","0","/","0","1","/","0","3">> -> <<1970, 1, 3>>
    [] OTHER -> <<>>

TimeOf(t) ==
  CASE t = <<"1","7",":","0","2",":","0","6",".","4","1","8">> -> <<17, 2, 6, 418000>>
    [] t = <<"1","7",":","0","2",":","0","6",".","0">> -> <<17, 2, 6, 0>>
    [] t = <<"1","7",":","0","2",":","0","6",".","5">> -> <<17, 2, 6, 500000>>
    [] t = <<"1","7",":","0","2",":","0","7",".","5">> -> <<17, 2, 7, 500000>>
    [] t = <<"1","7",":","0","2",":","0","6",".","5","0","0","0","0","1">> -> <<17, 2, 6, 500001>>
    [] t = <<"1","7",":","0","2",":","0","6",".","4","9","9","9","9","9">> -> <<17, 2, 6, 499999>>
    [] t = <<"0","1",":","3","0",":","0","0",".","0">> -> <<1, 30, 0, 0>>
    [] t = <<"0","2",":","0","0",":","0","0",".","0">> -> <<2, 0, 0, 0>>
    [] t = <<"0","0",":","5","9",":","5","9",".","9","9","9","9","9","9">> -> <<0, 59, 59, 999999>>
    [] OTHER -> <<>>

FailingDates ==
  { <<"2","0","1","7","-","0","9","-","1","1">>,
    <<"2","0","1","7","/","0","2","/","2","9">>,
    <<"0","0","0","0","/","0","1","/","0","1">>,
    <<"1","7","/","0","9","/","1","1">>,
    <<>> }

FailingTimes ==
  { <<"1","7",":","0","2",":","0","6">>,
    <<"1","7",":","0","2",":","0","6",".","1","2","3","4","5","6","7">>,
    <<"1","7",":","0","2",":","6","0",".","0">>,
    <<"2","4",":","0","0",":","0","0",".","0">> }

\* a time with no fractional part, and a date written with '-'
NoFractionTimes == { <<"1","7",":","0","2",":","0","6">> }

OtherSeparatorDates == { <<"2","0","1","7","-","0","9","-","1","1">> }

Called == ret[1].kind # "none"

ValidArg == DateOf(arg.date) # <<>> /\ TimeOf(arg.time) # <<>>

FailingArg == arg.date \in FailingDates \/ arg.time \in FailingTimes

\* days from 1970-01-01 to the civil date y/m/d
DaysFromCivil(y, m, d) ==
  LET yy == IF m <= 2 THEN y - 1 ELSE y
      era == yy \div 400
      yoe == yy - era * 400
      mp == IF m > 2 THEN m - 3 ELSE m + 9
      doy == (153 * mp + 2) \div 5 + d - 1
      doe == yoe * 365 + (yoe \div 4) - (yoe \div 100) + doy
  IN era * 146097 + doe - 719468

\* S: the seconds from 1970-01-01 00:00:00 to the date at HH:MM:SS
SecondsOf(date, time) ==
  LET d == DateOf(date)
      t == TimeOf(time)
  IN DaysFromCivil(d[1], d[2], d[3]) * 86400 + t[1] * 3600 + t[2] * 60 + t[3]

MicrosOf(time) == TimeOf(time)[4]

\* the epoch second count of 2017/09/11 17:02:06.418
FallbackEpoch == 1505149326

\* the value the except branch gives on a machine in time zone tz
FallbackOn(tz) ==
  CASE tz = "UTC" -> FallbackEpoch
    [] tz = "London" -> FallbackEpoch - 3600
    [] tz = "GMT+5" -> FallbackEpoch + 18000

\* the whole second nearest to S + us/10^6, the even one at a half
Nearest(S, us) ==
  IF us < 500000 THEN S
  ELSE IF us > 500000 THEN S + 1
  ELSE IF S % 2 = 0 THEN S ELSE S + 1

(***************************************************************************)
(* C1: for every (date, time) in the expected format, to_epoch returns an  *)
(* integer in {S, S+1}, S the seconds from 1970-01-01 00:00:00 to the date *)
(* at HH:MM:SS, and exactly S when the fraction is zero.  Stated for the   *)
(* machines whose localtime() accepts every instant.                       *)
(***************************************************************************)
C1_EpochSecondCount ==
  (Called /\ ValidArg) =>
    \A m \in Machines :
      env[m].platform = "posix" =>
        LET S == SecondsOf(arg.date, arg.time)
        IN /\ ret[m].kind = "return"
           /\ ret[m].value \in {S, S + 1}
           /\ (MicrosOf(arg.time) = 0 => ret[m].value = S)

(***************************************************************************)
(* C2: for every (date, time) that fails to parse, to_epoch returns one    *)
(* and the same integer, the epoch second count of 2017/09/11 17:02:06.418.*)
(***************************************************************************)
C2_FixedFallback ==
  (Called /\ FailingArg) => \A m \in Machines : ret[m] = Return(FallbackEpoch)

(***************************************************************************)
(* C3: to_epoch is total: every call returns an integer, no error escapes. *)
(***************************************************************************)
C3_Total == Called => \A m \in Machines : ret[m].kind = "return"

(***************************************************************************)
(* C4: to_epoch rounds the milliseconds up: for a valid pair with a        *)
(* non-zero fraction the result is S + 1.  Stated for the machines in UTC  *)
(* whose localtime() accepts every instant, where S is the count of C1.    *)
(***************************************************************************)
C4_RoundsUp ==
  (Called /\ ValidArg /\ MicrosOf(arg.time) # 0) =>
    \A m \in Machines :
      env[m] = [tz |-> "UTC", platform |-> "posix"] =>
        ret[m] = Return(SecondsOf(arg.date, arg.time) + 1)

C8_NearestSecond ==
  (Called /\ ValidArg) =>
    \A m \in Machines :
      env[m].tz = "UTC" =>
        ret[m] = Return(Nearest(SecondsOf(arg.date, arg.time), MicrosOf(arg.time)))

(***************************************************************************)
(* C10: two calls with the same (date, time) return the same integer       *)
(* whatever the machine they run on.                                       *)
(***************************************************************************)
C10_SameOnEveryMachine ==
  (ret[1].kind = "return" /\ ret[2].kind = "return") => ret[1].value = ret[2].value

(***************************************************************************)
(* C9: to_epoch preserves time order: for valid pairs a, b with a not      *)
(* later than b, to_epoch(a) <= to_epoch(b).  Stated for the machines      *)
(* whose localtime() accepts every instant.                                *)
(***************************************************************************)
ValidRow(r) == DateOf(r.date) # <<>> /\ TimeOf(r.time) # <<>>

NotLater(a, b) ==
  \/ SecondsOf(a.date, a.time) < SecondsOf(b.date, b.time)
  \/ /\ SecondsOf(a.date, a.time) = SecondsOf(b.date, b.time)
     /\ MicrosOf(a.time) <= MicrosOf(b.time)

C9_OrderPreserved ==
  (/\ Len(stamps) = 2
   /\ env[1].platform = "posix"
   /\ ValidRow(pair[1]) /\ ValidRow(pair[2])
   /\ NotLater(pair[1], pair[2])) =>
    /\ stamps[1].kind = "return"
    /\ stamps[2].kind = "return"
    /\ stamps[1].value <= stamps[2].value

(***************************************************************************)
(* C5: bbox() returns the bounding box the layer was constructed with      *)
(* (WORLD when the argument was omitted), after any sequence of draw and   *)
(* bbox calls; the stored view stays that box.                             *)
(***************************************************************************)
ConstructedWith == IF ctorBbox = <<>> THEN WORLD ELSE ctorBbox[1]

C5_BboxIsConstructorBox ==
  layer # <<>> =>
    /\ layer[1].view = ConstructedWith
    /\ (bboxRet # <<>> => bboxRet[1] = ConstructedWith)

\* a layer constructed with the Leeds box, drawn twice, whose bbox() then
\* returned the Leeds box
C5_Witness ==
  /\ layer # <<>>
  /\ ctorBbox = <<leeds_bbox>>
  /\ frame >= 2
  /\ bboxRet = <<leeds_bbox>>

(***************************************************************************)
(* C6: on every draw the rows painted are exactly the rows of the dataset  *)
(* whose timestamp is at or before the current animation time, and the     *)
(* current timestamp is painted as overlay text.  The animation time is    *)
(* the count of frames drawn.                                              *)
(***************************************************************************)
C6_DrawPaintsTrail ==
  (layer # <<>> /\ frame > 0) =>
    /\ painted = {r \in dataset : r.timestamp <= frame}
    /\ overlay = <<frame>>

====
